---- MODULE Spec2Model ----
(***************************************************************************)
(* Model of the client page controller (src/src/pages/ClientManagement.tsx)*)
(* and the task page controller (src/src/pages/Tasks.tsx) against the      *)
(* remote document store they call.                                        *)
(*                                                                         *)
(* Every handler is an async function.  A handler invocation is an entry   *)
(* of `ops` (resp. `taskOps`): the handler runs synchronously up to its    *)
(* next await (one action), the store executes the request at some later   *)
(* moment (one action per request, which may also fail), and the handler's *)
(* continuation runs when the response is delivered (one action).          *)
(***************************************************************************)
EXTENDS Integers, Sequences, FiniteSets, TLC

\* ------------------------------------------------------------------ bounds
\* Handler invocations (submits, confirmed deletes) of one page load, beside
\* the fetch of the mount effect.
MaxCalls == 1
\* The same, for a page load on an empty collection.
MaxRaceCalls == 2
\* The same, when the user waits for each operation before starting the next.
MaxSerialCalls == 2
\* The same, on the task page.
MaxTaskCalls == 1
\* The same, on the task page loaded on one task of the user.
MaxStaleCalls == 2

\* ------------------------------------------------------------------ values
Users == {"u1", "u2"}
NoUser == "none"

\* Strings that are case-converted are sequences of character codes:
\* "A" = <<65>>, "a" = <<97>>, "b" = <<98>>.

\* What the user types into the add form or over the edit form:
\* {name: "m", email: "A", phone: "2"}, {name: "m", email: "b", phone: "1"} or
\* {name: "n", email: "b", phone: "2"}.
Drafts == {[name |-> "m", email |-> <<65>>, phone |-> "2"],
           [name |-> "m", email |-> <<98>>, phone |-> "1"],
           [name |-> "n", email |-> <<98>>, phone |-> "2"]}

\* What earlier page loads submitted: {name: "n", email: "a", phone: "1"} or
\* {name: "n", email: "b", phone: "2"}.
EarlierDrafts == {[name |-> "n", email |-> <<97>>, phone |-> "1"],
                  [name |-> "n", email |-> <<98>>, phone |-> "2"]}

\* String.prototype.toLowerCase on the modelled alphabet (ASCII).
toLowerCase(s) == [i \in DOMAIN s |-> IF s[i] \in 65..90 THEN s[i] + 32 ELSE s[i]]

VARIABLES
  page,             \* which page component is mounted: "clients" or "tasks"
  currentUser,      \* useAuth().currentUser (its uid), NoUser when null
  \* remote store, collection 'clients'
  store,            \* document id -> fields
  nextId,           \* next identifier addDoc generates
  \* ClientManagement component state
  clients, isModalOpen, newClient, editingClient,
  isAddLoading, isEditLoading, isDeleteLoading, isTableLoading,
  isViewModalOpen, selectedClient,
  alert,            \* the message the step just taken passed to showAlert ("": none)
  lastConfirm,      \* what window.confirm returned in the step just taken ("none": not asked)
  ops,              \* the handler invocations in flight
  calls,            \* how many handler invocations have been started
  mode,             \* how the page is used: "free", "race" (free, on an empty
                    \* collection) or "serial" (the user waits for each operation)
  \* remote store, collection 'tasks'
  taskStore,        \* document id -> fields
  taskNextId,       \* next identifier addDoc generates
  \* Tasks component state (taskModalOpen is its isModalOpen)
  tasks, taskModalOpen, isLoading, newTask, editingTask,
  taskOps,          \* the handler invocations in flight
  now               \* the clock new Date() reads

taskVars == <<taskStore, taskNextId, tasks, taskModalOpen, isLoading, newTask,
              editingTask, taskOps, now>>
viewVars == <<isViewModalOpen, selectedClient>>
clientVars == <<store, nextId, clients, isModalOpen, newClient, editingClient,
                isAddLoading, isEditLoading, isDeleteLoading, isTableLoading, ops,
                viewVars>>

uiVars == <<clients, isModalOpen, newClient, editingClient,
            isAddLoading, isEditLoading, isDeleteLoading, isTableLoading>>

\* useState<Client | null>(null)
NullClient == [id |-> 0, name |-> "", email |-> <<>>, phone |-> "", userId |-> ""]
\* useState({ name: '', email: '', phone: '' })
EmptyDraft == [name |-> "", email |-> <<>>, phone |-> ""]

\* useState<Task | null>(null); updatedAt 0: the field is absent.
NullTask == [id |-> 0, title |-> "", description |-> "", status |-> "",
             priority |-> "", dueDate |-> "", createdAt |-> 0, updatedAt |-> 0,
             userId |-> ""]
\* useState({ title: '', description: '', status: 'todo', priority: 'medium',
\* dueDate: undefined })
EmptyTask == [title |-> "", description |-> "", status |-> "todo",
              priority |-> "medium", dueDate |-> ""]

\* ------------------------------------------------------------ the store
\* { id: doc.id, ...doc.data() }
ClientOf(id) == [id |-> id, name |-> store[id].name, email |-> store[id].email,
                 phone |-> store[id].phone, userId |-> store[id].userId]

\* (Variant: the query has no owner filter.)
QueryByUserAll(uid) ==
  LET ids == SelectSeq([i \in 1..(nextId - 1) |-> i],
                       LAMBDA i : i \in DOMAIN store)
  IN  [k \in DOMAIN ids |-> ClientOf(ids[k])]

\* query(collection(db, 'clients'), where('userId', '==', uid)), in the
\* store's order (by document id).
QueryByUser(uid) ==
  LET ids == SelectSeq([i \in 1..(nextId - 1) |-> i],
                       LAMBDA i : i \in DOMAIN store /\ store[i].userId = uid)
  IN  [k \in DOMAIN ids |-> ClientOf(ids[k])]

\* where('userId', '==', uid), where('email', '==', email)
QueryByEmail(uid, email) ==
  {i \in DOMAIN store : store[i].userId = uid /\ store[i].email = email}

\* where('userId', '==', uid), where('phone', '==', phone)
QueryByPhone(uid, phone) ==
  {i \in DOMAIN store : store[i].userId = uid /\ store[i].phone = phone}

\* ------------------------------------------------ handler invocations
\* kind: which handler; pc: where it is suspended; uid: currentUser.uid of the
\* render whose closure is running; rec: the draft, edit buffer or row it was
\* called with; checkSt, emailIds, phoneIds: the state of the existence check
\* and the ids in its two snapshots; docs: a fetch's snapshot; from: the
\* handler that called fetchClients; prior (history): the local list when
\* fetchClients was called.  Free is the record every invocation starts from.
Free == [kind |-> "free", pc |-> "", uid |-> "", rec |-> NullClient,
         checkSt |-> "", emailIds |-> {}, phoneIds |-> {},
         docs |-> <<>>, from |-> "", prior |-> <<>>]

\* ops lists the invocations in flight in the order they were started.
Slots == DOMAIN ops
Remove(seq, s) == [k \in 1..(Len(seq) - 1) |-> IF k < s THEN seq[k] ELSE seq[k + 1]]

\* The awaited write of an invocation resolved: control goes on after the
\* await in the try block; otherwise it rejected and control is in the catch
\* block.
\* (Variant: the code after the await runs whether or not the write resolved.)
AwaitResolvedAlways(op) == TRUE
AwaitResolved(op) == op.pc = "written"

\* A mutation handler (add, edit, delete) is between its submit and the
\* continuation after its write.
MutationInFlight == \E s \in Slots : ops[s].kind \in {"add", "edit", "delete"}

CallLimit ==
  CASE mode = "stale" -> MaxStaleCalls
    [] page = "tasks" -> MaxTaskCalls
    [] mode = "serial" -> MaxSerialCalls
    [] mode = "race" -> MaxRaceCalls
    [] OTHER -> MaxCalls

\* A handler may be started: a bound of the model, and the user's patience.
CanStart ==
  /\ calls < CallLimit
  /\ mode = "serial" => ~MutationInFlight

\* fetchClients(), lines 49-53: up to the await of getDocs.  The request is
\* in flight; the caller sets isTableLoading.
FetchOp(uid, from, rec) ==
  [Free EXCEPT !.kind = "fetch", !.pc = "query", !.uid = uid, !.from = from,
               !.rec = rec, !.prior = clients]

\* The add/edit modal (and its overlay, which covers the page) is rendered.
ModalShown == isModalOpen \/ editingClient # NullClient
\* The detail panel (and its overlay, which covers the page) is rendered
\* (line 349).
ViewShown == isViewModalOpen /\ selectedClient # NullClient
\* (Variant: the overlays do not cover the table.)
TableShownBehindModal == ~isTableLoading /\ Len(clients) > 0

\* The table with its per-row buttons is rendered and reachable.
TableShown == ~isTableLoading /\ Len(clients) > 0 /\ ~ModalShown /\ ~ViewShown

\* ------------------------------------------------------------ mount
\* The Tasks component is not mounted.
TaskUnmounted ==
  /\ taskStore = <<>> /\ taskNextId = 1
  /\ tasks = <<>> /\ taskModalOpen = FALSE /\ isLoading = TRUE
  /\ newTask = EmptyTask /\ editingTask = NullTask
  /\ taskOps = <<>> /\ now = 1

\* The ClientManagement component is not mounted.
ClientUnmounted ==
  /\ store = <<>> /\ nextId = 1
  /\ clients = <<>> /\ isModalOpen = FALSE
  /\ newClient = EmptyDraft /\ editingClient = NullClient
  /\ isAddLoading = FALSE /\ isEditLoading = FALSE /\ isDeleteLoading = 0
  /\ isTableLoading = TRUE
  /\ isViewModalOpen = FALSE /\ selectedClient = NullClient
  /\ ops = <<>>

\* The page is loaded against the store: the component is constructed (lines
\* 25-36) and, with a user signed in, its effect (lines 39-46) has called
\* fetchClients.
Mounted(u) ==
  /\ page = "clients"
  /\ TaskUnmounted
  /\ currentUser = u
  /\ clients = <<>>
  /\ isModalOpen = FALSE
  /\ newClient = EmptyDraft
  /\ editingClient = NullClient
  /\ isAddLoading = FALSE
  /\ isEditLoading = FALSE
  /\ isDeleteLoading = 0
  /\ isTableLoading = TRUE
  /\ isViewModalOpen = FALSE
  /\ selectedClient = NullClient
  /\ alert = ""
  /\ lastConfirm = "none"
  /\ ops = IF u # NoUser THEN <<FetchOp(u, "mount", NullClient)>> ELSE <<>>
  /\ calls = 0

\* ------------------------------------------------------- fetchClients
\* The store answers the owner-scoped query.
FetchQuery(s) ==
  /\ page = "clients" /\ UNCHANGED taskVars /\ UNCHANGED viewVars
  /\ ops[s].kind = "fetch" /\ ops[s].pc = "query"
  /\ ops' = [ops EXCEPT ![s].pc = "ok", ![s].docs = QueryByUser(ops[s].uid)]
  /\ UNCHANGED <<page, mode, calls, currentUser, store, nextId, uiVars>>
  /\ alert' = ""
  /\ lastConfirm' = "none"

\* getDocs rejects.
FetchFail(s) ==
  /\ page = "clients" /\ UNCHANGED taskVars /\ UNCHANGED viewVars
  /\ ops[s].kind = "fetch" /\ ops[s].pc = "query"
  /\ ops' = [ops EXCEPT ![s].pc = "err"]
  /\ UNCHANGED <<page, mode, calls, currentUser, store, nextId, uiVars>>
  /\ alert' = ""
  /\ lastConfirm' = "none"

\* Lines 54-58: the local list once the fetch has settled: the snapshot
\* (setClients), or, after a rejection, the list as it is (the catch block
\* does not call setClients).
\* (Variant: the catch block clears the list.)
ClientsAfterFetchCleared(op) == IF op.pc = "ok" THEN op.docs ELSE <<>>
ClientsAfterFetch(op) == IF op.pc = "ok" THEN op.docs ELSE clients

\* Lines 54-61: the continuation after await getDocs.
FetchDone(s) ==
  /\ page = "clients" /\ UNCHANGED taskVars /\ UNCHANGED viewVars
  /\ ops[s].kind = "fetch" /\ ops[s].pc \in {"ok", "err"}
  /\ clients' = ClientsAfterFetch(ops[s])
  /\ alert' = IF ops[s].pc = "ok" THEN "" ELSE "Failed to fetch clients"
  /\ isTableLoading' = FALSE
  /\ ops' = Remove(ops, s)
  /\ UNCHANGED <<page, mode, calls, currentUser, store, nextId, isModalOpen, newClient,
                 editingClient, isAddLoading, isEditLoading, isDeleteLoading>>
  /\ lastConfirm' = "none"

\* ------------------------------------------------------ auth change
\* Lines 37-46: useAuth() hands the mounted component another currentUser
\* (another user signed in, or null after a sign-out); the state of the
\* component is kept, and the effect, which depends on currentUser, runs
\* again: with a user it calls fetchClients (lines 48-53 up to the await).
AuthChange(u) ==
  /\ page = "clients" /\ UNCHANGED taskVars /\ UNCHANGED viewVars
  /\ u \in (Users \cup {NoUser}) \ {currentUser}
  /\ CanStart /\ calls' = calls + 1
  /\ currentUser' = u
  /\ IF u # NoUser
       THEN /\ isTableLoading' = TRUE
            /\ ops' = Append(ops, FetchOp(u, "mount", NullClient))
       ELSE UNCHANGED <<isTableLoading, ops>>
  /\ UNCHANGED <<page, mode, store, nextId, clients, isModalOpen, newClient,
                 editingClient, isAddLoading, isEditLoading, isDeleteLoading>>
  /\ alert' = ""
  /\ lastConfirm' = "none"

\* ------------------------------------------------- ClientTable
\* (Variant: the rows are rendered in reverse order.)
ClientTableReversed(cs) ==
  [i \in 1..Len(cs) |->
     [key |-> cs[Len(cs) + 1 - i].id,
      cells |-> <<cs[Len(cs) + 1 - i].name, cs[Len(cs) + 1 - i].email,
                  cs[Len(cs) + 1 - i].phone>>,
      onView |-> cs[Len(cs) + 1 - i],
      onEdit |-> cs[Len(cs) + 1 - i],
      onDelete |-> cs[Len(cs) + 1 - i].id]]

\* components/ClientTable, lines 20-79: clients.map renders one row per
\* record, keyed by its id, with the name, email and phone cells and three
\* buttons; each row is given here with the argument its buttons pass to
\* onView (line 47), onEdit (line 55) and onDelete (line 63).
ClientTable(cs) ==
  [i \in 1..Len(cs) |->
     [key |-> cs[i].id,
      cells |-> <<cs[i].name, cs[i].email, cs[i].phone>>,
      onView |-> cs[i],
      onEdit |-> cs[i],
      onDelete |-> cs[i].id]]

\* ------------------------------------------------------ modal, form
\* Line 228: the "Add New Client" button.
OpenAddModal ==
  /\ page = "clients" /\ UNCHANGED taskVars /\ UNCHANGED viewVars
  /\ ~ModalShown /\ ~ViewShown
  /\ isModalOpen' = TRUE
  /\ UNCHANGED <<page, mode, calls, currentUser, store, nextId, clients, newClient,
                 editingClient, isAddLoading, isEditLoading, isDeleteLoading,
                 isTableLoading, ops>>
  /\ alert' = ""
  /\ lastConfirm' = "none"

\* Lines 257-260, 267-270, 329-332: overlay, X and Cancel.
CloseModal ==
  /\ page = "clients" /\ UNCHANGED taskVars /\ UNCHANGED viewVars
  /\ ModalShown
  /\ isModalOpen' = FALSE
  /\ editingClient' = NullClient
  /\ UNCHANGED <<page, mode, calls, currentUser, store, nextId, clients, newClient,
                 isAddLoading, isEditLoading, isDeleteLoading,
                 isTableLoading, ops>>
  /\ alert' = ""
  /\ lastConfirm' = "none"

\* Line 247 through ClientTable's edit button: onEdit={setEditingClient}.
ClickEdit(i) ==
  /\ page = "clients" /\ UNCHANGED taskVars /\ UNCHANGED viewVars
  /\ TableShown
  /\ i \in 1..Len(clients)
  /\ editingClient' = ClientTable(clients)[i].onEdit
  /\ UNCHANGED <<page, mode, calls, currentUser, store, nextId, clients, isModalOpen,
                 newClient, isAddLoading, isEditLoading, isDeleteLoading,
                 isTableLoading, ops>>
  /\ alert' = ""
  /\ lastConfirm' = "none"

\* (Variant: viewing a record also makes it the edit target.)
handleViewClientEdits(i) ==
  /\ page = "clients" /\ UNCHANGED taskVars
  /\ TableShown
  /\ i \in 1..Len(clients)
  /\ selectedClient' = ClientTable(clients)[i].onView
  /\ isViewModalOpen' = TRUE
  /\ editingClient' = ClientTable(clients)[i].onView
  /\ UNCHANGED <<page, mode, calls, currentUser, store, nextId, clients, isModalOpen,
                 newClient, isAddLoading, isEditLoading,
                 isDeleteLoading, isTableLoading, ops>>
  /\ alert' = ""
  /\ lastConfirm' = "none"

\* Lines 199-202 through ClientTable's view button (line 248).
handleViewClient(i) ==
  /\ page = "clients" /\ UNCHANGED taskVars
  /\ TableShown
  /\ i \in 1..Len(clients)
  /\ selectedClient' = ClientTable(clients)[i].onView
  /\ isViewModalOpen' = TRUE
  /\ UNCHANGED <<page, mode, calls, currentUser, store, nextId, clients, isModalOpen,
                 newClient, editingClient, isAddLoading, isEditLoading,
                 isDeleteLoading, isTableLoading, ops>>
  /\ alert' = ""
  /\ lastConfirm' = "none"

\* Lines 351-354, 360-363, 385-388: overlay, X and Close of the detail panel.
CloseViewModal ==
  /\ page = "clients" /\ UNCHANGED taskVars
  /\ ViewShown
  /\ isViewModalOpen' = FALSE
  /\ selectedClient' = NullClient
  /\ UNCHANGED <<page, mode, calls, currentUser, store, nextId, clients, isModalOpen,
                 newClient, editingClient, isAddLoading, isEditLoading,
                 isDeleteLoading, isTableLoading, ops>>
  /\ alert' = ""
  /\ lastConfirm' = "none"

\* The submit button is rendered with isLoading={isAddLoading || isEditLoading}
\* (lines 337-340): no submit while a write of the form is in flight.
CanSubmit == ModalShown /\ ~(isAddLoading \/ isEditLoading)

\* --------------------------------------------------- handleAddClient
\* The value the email existence query compares with (line 76).
\* (Variant: the draft email as typed, without case conversion.)
AddEmailKeyRaw(draft) == draft.email
AddEmailKey(draft) == toLowerCase(draft.email)

\* The value the phone existence query compares with (line 81).
\* (Variant: the query compares with another field of the draft.)
AddPhoneKeyName(draft) == draft.name
AddPhoneKey(draft) == draft.phone

\* (Variant: the email is stored as typed.)
AddClientDataRaw(draft, uid) ==
  [name |-> draft.name, email |-> draft.email,
   phone |-> draft.phone, userId |-> uid]

\* Lines 106-110: the document addDoc is given.
AddClientData(draft, uid) ==
  [name |-> draft.name, email |-> toLowerCase(draft.email),
   phone |-> draft.phone, userId |-> uid]

\* isAddLoading once the submit has run up to its first await: line 104 comes
\* after the existence check, so the submit leaves the flag as it is.
\* (Variant: the flag is set before the existence check.)
AddLoadingAtSubmitSet == TRUE
AddLoadingAtSubmit == isAddLoading

\* Lines 285-288, 301-304, 317-320 with editingClient null, then lines 64-87:
\* the user fills in the three (required) fields of the add form and submits
\* it; the handler runs up to await Promise.all.
handleAddClient(d) ==
  /\ page = "clients" /\ UNCHANGED taskVars /\ UNCHANGED viewVars
  /\ CanSubmit /\ editingClient = NullClient
  /\ d.name # "" /\ d.email # <<>> /\ d.phone # ""
  /\ newClient' = d
  /\ IF currentUser = NoUser
       THEN /\ alert' = "You must be logged in to add a client."
            /\ ops' = ops
       ELSE /\ CanStart
            /\ alert' = ""
            /\ ops' = Append(ops,
                 [Free EXCEPT !.kind = "add", !.pc = "check", !.uid = currentUser,
                              !.rec = [NullClient EXCEPT !.name = d.name,
                                                         !.email = d.email,
                                                         !.phone = d.phone],
                              !.checkSt = "pending"])
  /\ calls' = IF currentUser = NoUser THEN calls ELSE calls + 1
  /\ isAddLoading' = IF currentUser = NoUser THEN isAddLoading ELSE AddLoadingAtSubmit
  /\ UNCHANGED <<page, mode, currentUser, store, nextId, clients, isModalOpen,
                 editingClient, isEditLoading, isDeleteLoading, isTableLoading>>
  /\ lastConfirm' = "none"

\* The store answers the two getDocs of the Promise.all (lines 84-87).  Both
\* are evaluated on the store as it is at that moment.
AddQuery(s) ==
  /\ page = "clients" /\ UNCHANGED taskVars /\ UNCHANGED viewVars
  /\ ops[s].kind = "add" /\ ops[s].pc = "check" /\ ops[s].checkSt = "pending"
  /\ ops' = [ops EXCEPT ![s].checkSt = "ok",
                        ![s].emailIds = QueryByEmail(ops[s].uid, AddEmailKey(ops[s].rec)),
                        ![s].phoneIds = QueryByPhone(ops[s].uid, AddPhoneKey(ops[s].rec))]
  /\ UNCHANGED <<page, mode, calls, currentUser, store, nextId, uiVars>>
  /\ alert' = ""
  /\ lastConfirm' = "none"

\* One of the two getDocs rejects, and with it the Promise.all.
AddQueryFail(s) ==
  /\ page = "clients" /\ UNCHANGED taskVars /\ UNCHANGED viewVars
  /\ ops[s].kind = "add" /\ ops[s].pc = "check" /\ ops[s].checkSt = "pending"
  /\ ops' = [ops EXCEPT ![s].checkSt = "err"]
  /\ UNCHANGED <<page, mode, calls, currentUser, store, nextId, uiVars>>
  /\ alert' = ""
  /\ lastConfirm' = "none"

\* Promise.all has settled: both snapshots are there, or a query rejected.
CheckSettled(op) == op.checkSt \in {"ok", "err"}
\* (Variant: a rejected check is taken for one that found nothing.)
CheckFailedNever(op) == FALSE
CheckFailed(op) == op.checkSt = "err"

\* Lines 89 and 94: !emailSnapshot.empty, !phoneSnapshot.empty.
AddDuplicateEmail(op) == op.emailIds # {}
\* (Variant: the phone snapshot is not looked at.)
AddDuplicatePhoneNever(op) == FALSE
AddDuplicatePhone(op) == op.phoneIds # {}

\* Lines 88-111: the continuation after the existence check, up to await addDoc.
AddChecked(s) ==
  /\ page = "clients" /\ UNCHANGED taskVars /\ UNCHANGED viewVars
  /\ ops[s].kind = "add" /\ ops[s].pc = "check" /\ CheckSettled(ops[s])
  /\ IF CheckFailed(ops[s])
       THEN /\ alert' = "Error checking for duplicate clients."
            /\ ops' = Remove(ops, s)
            /\ isAddLoading' = isAddLoading
       ELSE IF AddDuplicateEmail(ops[s])
       THEN /\ alert' = "A client with this email already exists."
            /\ ops' = Remove(ops, s)
            /\ isAddLoading' = isAddLoading
       ELSE IF AddDuplicatePhone(ops[s])
       THEN /\ alert' = "A client with this phone number already exists."
            /\ ops' = Remove(ops, s)
            /\ isAddLoading' = isAddLoading
       ELSE /\ alert' = ""
            /\ ops' = [ops EXCEPT ![s].pc = "write"]
            /\ isAddLoading' = TRUE
  /\ UNCHANGED <<page, mode, calls, currentUser, store, nextId, clients, isModalOpen,
                 newClient, editingClient, isEditLoading, isDeleteLoading,
                 isTableLoading>>
  /\ lastConfirm' = "none"

\* The store executes addDoc: a new document under a generated identifier.
AddWrite(s) ==
  /\ page = "clients" /\ UNCHANGED taskVars /\ UNCHANGED viewVars
  /\ ops[s].kind = "add" /\ ops[s].pc = "write"
  /\ store' = store @@ (nextId :> AddClientData(ops[s].rec, ops[s].uid))
  /\ nextId' = nextId + 1
  /\ ops' = [ops EXCEPT ![s].pc = "written"]
  /\ UNCHANGED <<page, mode, calls, currentUser, uiVars>>
  /\ alert' = ""
  /\ lastConfirm' = "none"

\* addDoc rejects.
AddWriteFail(s) ==
  /\ page = "clients" /\ UNCHANGED taskVars /\ UNCHANGED viewVars
  /\ ops[s].kind = "add" /\ ops[s].pc = "write"
  /\ ops' = [ops EXCEPT ![s].pc = "failed"]
  /\ UNCHANGED <<page, mode, calls, currentUser, store, nextId, uiVars>>
  /\ alert' = ""
  /\ lastConfirm' = "none"

\* Lines 112-121: the continuation after await addDoc.
AddDone(s) ==
  /\ page = "clients" /\ UNCHANGED taskVars /\ UNCHANGED viewVars
  /\ ops[s].kind = "add" /\ ops[s].pc \in {"written", "failed"}
  /\ IF AwaitResolved(ops[s])
       THEN /\ alert' = "Client added successfully"
            /\ isModalOpen' = FALSE
            /\ newClient' = EmptyDraft
            /\ isTableLoading' = TRUE
            /\ ops' = [ops EXCEPT ![s] = FetchOp(ops[s].uid, "add", NullClient)]
       ELSE /\ alert' = "Failed to add client. Please try again later."
            /\ UNCHANGED <<isModalOpen, newClient, isTableLoading>>
            /\ ops' = Remove(ops, s)
  /\ isAddLoading' = FALSE
  /\ UNCHANGED <<page, mode, calls, currentUser, store, nextId, clients, editingClient,
                 isEditLoading, isDeleteLoading>>
  /\ lastConfirm' = "none"

\* -------------------------------------------------- handleEditClient
\* The values the two existence queries compare with (lines 133 and 138).
EditEmailKey(buf) == toLowerCase(buf.email)
EditPhoneKey(buf) == buf.phone

\* Lines 147 and 154: docs.some(doc => doc.id !== editingClient.id).
\* (Variant: the edited record itself counts as a duplicate.)
EditDuplicateAny(ids, buf) == ids # {}
\* (Variant: the snapshot is not looked at.)
EditDuplicateNever(ids, buf) == FALSE
EditDuplicate(ids, buf) == \E i \in ids : i # buf.id

\* Lines 168-171: the fields updateDoc is given ({...editingClient, email}).
EditClientData(buf) ==
  [name |-> buf.name, email |-> toLowerCase(buf.email),
   phone |-> buf.phone, userId |-> buf.userId]

\* Lines 285-286, 301-302, 317-318 with editingClient set, then lines 124-144:
\* the user rewrites the fields of the edit buffer and submits the form; the
\* handler runs up to await Promise.all.  Reading currentUser.uid of a null
\* user throws inside the try block.
handleEditClient(d) ==
  /\ page = "clients" /\ UNCHANGED taskVars /\ UNCHANGED viewVars
  /\ CanSubmit /\ editingClient # NullClient
  /\ d.name # "" /\ d.email # <<>> /\ d.phone # ""
  /\ editingClient' = [editingClient EXCEPT !.name = d.name, !.email = d.email,
                                            !.phone = d.phone]
  /\ IF currentUser = NoUser
       THEN /\ alert' = "Error checking for duplicate clients."
            /\ ops' = ops
       ELSE /\ CanStart
            /\ alert' = ""
            /\ ops' = Append(ops,
                 [Free EXCEPT !.kind = "edit", !.pc = "check", !.uid = currentUser,
                              !.rec = editingClient',
                              !.checkSt = "pending"])
  /\ calls' = IF currentUser = NoUser THEN calls ELSE calls + 1
  /\ UNCHANGED <<page, mode, currentUser, store, nextId, clients, isModalOpen,
                 newClient, isAddLoading, isEditLoading, isDeleteLoading,
                 isTableLoading>>
  /\ lastConfirm' = "none"

\* The store answers the two getDocs of the Promise.all (lines 141-144).
EditQuery(s) ==
  /\ page = "clients" /\ UNCHANGED taskVars /\ UNCHANGED viewVars
  /\ ops[s].kind = "edit" /\ ops[s].pc = "check" /\ ops[s].checkSt = "pending"
  /\ ops' = [ops EXCEPT ![s].checkSt = "ok",
                        ![s].emailIds = QueryByEmail(ops[s].uid, EditEmailKey(ops[s].rec)),
                        ![s].phoneIds = QueryByPhone(ops[s].uid, EditPhoneKey(ops[s].rec))]
  /\ UNCHANGED <<page, mode, calls, currentUser, store, nextId, uiVars>>
  /\ alert' = ""
  /\ lastConfirm' = "none"

\* One of the two getDocs rejects, and with it the Promise.all.
EditQueryFail(s) ==
  /\ page = "clients" /\ UNCHANGED taskVars /\ UNCHANGED viewVars
  /\ ops[s].kind = "edit" /\ ops[s].pc = "check" /\ ops[s].checkSt = "pending"
  /\ ops' = [ops EXCEPT ![s].checkSt = "err"]
  /\ UNCHANGED <<page, mode, calls, currentUser, store, nextId, uiVars>>
  /\ alert' = ""
  /\ lastConfirm' = "none"

\* Lines 145-171: the continuation after the existence check, up to await
\* updateDoc.
EditChecked(s) ==
  /\ page = "clients" /\ UNCHANGED taskVars /\ UNCHANGED viewVars
  /\ ops[s].kind = "edit" /\ ops[s].pc = "check" /\ CheckSettled(ops[s])
  /\ IF CheckFailed(ops[s])
       THEN /\ alert' = "Error checking for duplicate clients."
            /\ ops' = Remove(ops, s)
            /\ isEditLoading' = isEditLoading
       ELSE IF EditDuplicate(ops[s].emailIds, ops[s].rec)
       THEN /\ alert' = "Another client with this email already exists."
            /\ ops' = Remove(ops, s)
            /\ isEditLoading' = isEditLoading
       ELSE IF EditDuplicate(ops[s].phoneIds, ops[s].rec)
       THEN /\ alert' = "Another client with this phone number already exists."
            /\ ops' = Remove(ops, s)
            /\ isEditLoading' = isEditLoading
       ELSE /\ alert' = ""
            /\ ops' = [ops EXCEPT ![s].pc = "write"]
            /\ isEditLoading' = TRUE
  /\ UNCHANGED <<page, mode, calls, currentUser, store, nextId, clients, isModalOpen,
                 newClient, editingClient, isAddLoading, isDeleteLoading,
                 isTableLoading>>
  /\ lastConfirm' = "none"

\* The store executes updateDoc: the given fields are set on the document,
\* which must exist.
EditWrite(s) ==
  /\ page = "clients" /\ UNCHANGED taskVars /\ UNCHANGED viewVars
  /\ ops[s].kind = "edit" /\ ops[s].pc = "write"
  /\ ops[s].rec.id \in DOMAIN store
  /\ store' = [store EXCEPT ![ops[s].rec.id] = EditClientData(ops[s].rec)]
  /\ ops' = [ops EXCEPT ![s].pc = "written"]
  /\ UNCHANGED <<page, mode, calls, currentUser, nextId, uiVars>>
  /\ alert' = ""
  /\ lastConfirm' = "none"

\* updateDoc rejects (a store error, or no such document).
EditWriteFail(s) ==
  /\ page = "clients" /\ UNCHANGED taskVars /\ UNCHANGED viewVars
  /\ ops[s].kind = "edit" /\ ops[s].pc = "write"
  /\ ops' = [ops EXCEPT ![s].pc = "failed"]
  /\ UNCHANGED <<page, mode, calls, currentUser, store, nextId, uiVars>>
  /\ alert' = ""
  /\ lastConfirm' = "none"

\* Lines 172-180: the continuation after await updateDoc.
EditDone(s) ==
  /\ page = "clients" /\ UNCHANGED taskVars /\ UNCHANGED viewVars
  /\ ops[s].kind = "edit" /\ ops[s].pc \in {"written", "failed"}
  /\ IF AwaitResolved(ops[s])
       THEN /\ alert' = "Client updated successfully"
            /\ editingClient' = NullClient
            /\ isTableLoading' = TRUE
            /\ ops' = [ops EXCEPT ![s] = FetchOp(ops[s].uid, "edit", NullClient)]
       ELSE /\ alert' = "Failed to update client. Please try again later."
            /\ UNCHANGED <<editingClient, isTableLoading>>
            /\ ops' = Remove(ops, s)
  /\ isEditLoading' = FALSE
  /\ UNCHANGED <<page, mode, calls, currentUser, store, nextId, clients, isModalOpen,
                 newClient, isAddLoading, isDeleteLoading>>
  /\ lastConfirm' = "none"

\* ------------------------------------------------ handleDeleteClient
\* Lines 183-187: the delete button of row i; answer is what window.confirm
\* returns.  Declined, the handler does nothing.
\* (Variant: the answer of window.confirm is not looked at.)
handleDeleteClientAlways(i, answer) ==
  /\ page = "clients" /\ UNCHANGED taskVars /\ UNCHANGED viewVars
  /\ TableShown
  /\ i \in 1..Len(clients)
  /\ lastConfirm' = answer
  /\ CanStart /\ calls' = calls + 1
  /\ isDeleteLoading' = ClientTable(clients)[i].onDelete
  /\ ops' = Append(ops,
       [Free EXCEPT !.kind = "delete", !.pc = "write", !.uid = currentUser,
                    !.rec = [NullClient EXCEPT
                               !.id = ClientTable(clients)[i].onDelete]])
  /\ UNCHANGED <<page, mode, currentUser, store, nextId, clients, isModalOpen,
                 newClient, editingClient, isAddLoading, isEditLoading,
                 isTableLoading>>
  /\ alert' = ""

handleDeleteClient(i, answer) ==
  /\ page = "clients" /\ UNCHANGED taskVars /\ UNCHANGED viewVars
  /\ TableShown
  /\ i \in 1..Len(clients)
  /\ lastConfirm' = answer
  /\ IF answer = "yes"
       THEN /\ CanStart /\ calls' = calls + 1
            /\ isDeleteLoading' = ClientTable(clients)[i].onDelete
            /\ ops' = Append(ops,
                 [Free EXCEPT !.kind = "delete", !.pc = "write", !.uid = currentUser,
                              !.rec = [NullClient EXCEPT
                                         !.id = ClientTable(clients)[i].onDelete]])
       ELSE UNCHANGED <<isDeleteLoading, ops, calls>>
  /\ UNCHANGED <<page, mode, currentUser, store, nextId, clients, isModalOpen,
                 newClient, editingClient, isAddLoading, isEditLoading,
                 isTableLoading>>
  /\ alert' = ""

\* deleteDoc(doc(db, 'clients', id)) at the store: the document with that
\* identifier is removed (deleting a missing document succeeds).
\* (Variant: every document of the owner is removed.)
DeleteDocOwner(id) == [i \in {j \in DOMAIN store : store[j].userId # store[id].userId} |-> store[i]]
DeleteDoc(id) == [i \in DOMAIN store \ {id} |-> store[i]]

DeleteWrite(s) ==
  /\ page = "clients" /\ UNCHANGED taskVars /\ UNCHANGED viewVars
  /\ ops[s].kind = "delete" /\ ops[s].pc = "write"
  /\ store' = DeleteDoc(ops[s].rec.id)
  /\ ops' = [ops EXCEPT ![s].pc = "written"]
  /\ UNCHANGED <<page, mode, calls, currentUser, nextId, uiVars>>
  /\ alert' = ""
  /\ lastConfirm' = "none"

\* deleteDoc rejects.
DeleteWriteFail(s) ==
  /\ page = "clients" /\ UNCHANGED taskVars /\ UNCHANGED viewVars
  /\ ops[s].kind = "delete" /\ ops[s].pc = "write"
  /\ ops' = [ops EXCEPT ![s].pc = "failed"]
  /\ UNCHANGED <<page, mode, calls, currentUser, store, nextId, uiVars>>
  /\ alert' = ""
  /\ lastConfirm' = "none"

\* Lines 188-195: the continuation after await deleteDoc.  fetchClients
\* returns at once when the closure's currentUser is null.
DeleteDone(s) ==
  /\ page = "clients" /\ UNCHANGED taskVars /\ UNCHANGED viewVars
  /\ ops[s].kind = "delete" /\ ops[s].pc \in {"written", "failed"}
  /\ IF AwaitResolved(ops[s])
       THEN /\ alert' = "Client deleted successfully"
            /\ IF ops[s].uid = NoUser
                 THEN /\ isTableLoading' = isTableLoading
                      /\ ops' = Remove(ops, s)
                 ELSE /\ isTableLoading' = TRUE
                      /\ ops' = [ops EXCEPT ![s] = FetchOp(ops[s].uid, "delete", ops[s].rec)]
       ELSE /\ alert' = "Failed to delete client. Please try again later."
            /\ isTableLoading' = isTableLoading
            /\ ops' = Remove(ops, s)
  /\ isDeleteLoading' = 0
  /\ UNCHANGED <<page, mode, calls, currentUser, store, nextId, clients, isModalOpen,
                 newClient, editingClient, isAddLoading, isEditLoading>>
  /\ lastConfirm' = "none"

\* =========================================================== Tasks.tsx
TaskStatuses == {"todo", "in-progress", "completed"}

\* What the user types into the task form (title, description, priority, due
\* date; the form has no status field).
TaskDrafts == {[title |-> "s", description |-> "e", priority |-> "high", dueDate |-> "x"]}
\* What earlier page loads submitted.
EarlierTaskDrafts == {[title |-> "t", description |-> "d", priority |-> "medium",
                       dueDate |-> ""]}

\* The fields of a task document, from an object that carries them.
TaskDoc(o) == [title |-> o.title, description |-> o.description, status |-> o.status,
               priority |-> o.priority, dueDate |-> o.dueDate,
               createdAt |-> o.createdAt, updatedAt |-> o.updatedAt,
               userId |-> o.userId]

\* { id: doc.id, ...doc.data() } (line 47)
TaskOf(id) == [id |-> id, title |-> taskStore[id].title,
               description |-> taskStore[id].description,
               status |-> taskStore[id].status, priority |-> taskStore[id].priority,
               dueDate |-> taskStore[id].dueDate, createdAt |-> taskStore[id].createdAt,
               updatedAt |-> taskStore[id].updatedAt, userId |-> taskStore[id].userId]

\* query(collection(db, 'tasks'), where('userId', '==', uid)) (line 45), in
\* the store's order (by document id).
QueryTasksByUser(uid) ==
  LET ids == SelectSeq([i \in 1..(taskNextId - 1) |-> i],
                       LAMBDA i : i \in DOMAIN taskStore /\ taskStore[i].userId = uid)
  IN  [k \in DOMAIN ids |-> TaskOf(ids[k])]

\* An invocation of a Tasks handler: kind, where it is suspended, the uid of
\* its closure, the object it sends or the row it was called for, a fetch's
\* snapshot, and the handler that called fetchTasks.
TaskFree == [kind |-> "free", pc |-> "", uid |-> "", rec |-> NullTask,
             docs |-> <<>>, from |-> ""]
TaskSlots == DOMAIN taskOps

\* fetchTasks(), lines 42-46: up to the await of getDocs; the caller sets
\* isLoading.
TaskFetchOp(uid, from, rec) ==
  [TaskFree EXCEPT !.kind = "fetch", !.pc = "query", !.uid = uid, !.from = from,
                   !.rec = rec]

\* Line 204: the dialog is open.
DialogShown == taskModalOpen \/ editingTask # NullTask
\* Lines 192-202: the three columns are rendered; an open dialog is modal and
\* covers the page.
ColumnsShown == ~isLoading /\ ~DialogShown

\* The page is loaded against the store: the component is constructed (lines
\* 22-33) and, with a user signed in, its effect (lines 35-39) has called
\* fetchTasks.
TaskMounted(u) ==
  /\ page = "tasks"
  /\ ClientUnmounted
  /\ currentUser = u
  /\ tasks = <<>>
  /\ taskModalOpen = FALSE
  /\ isLoading = TRUE
  /\ newTask = EmptyTask
  /\ editingTask = NullTask
  /\ alert = ""
  /\ lastConfirm = "none"
  /\ taskOps = IF u # NoUser THEN <<TaskFetchOp(u, "mount", NullTask)>> ELSE <<>>
  /\ calls = 0
  /\ now = 1

\* ---------------------------------------------------------- fetchTasks
\* The store answers the owner-scoped query.
TaskFetchQuery(s) ==
  /\ page = "tasks" /\ UNCHANGED clientVars
  /\ taskOps[s].kind = "fetch" /\ taskOps[s].pc = "query"
  /\ taskOps' = [taskOps EXCEPT ![s].pc = "ok",
                                ![s].docs = QueryTasksByUser(taskOps[s].uid)]
  /\ UNCHANGED <<page, mode, calls, currentUser, taskStore, taskNextId, tasks,
                 taskModalOpen, isLoading, newTask, editingTask, now>>
  /\ alert' = ""
  /\ lastConfirm' = "none"

\* getDocs rejects.
TaskFetchFail(s) ==
  /\ page = "tasks" /\ UNCHANGED clientVars
  /\ taskOps[s].kind = "fetch" /\ taskOps[s].pc = "query"
  /\ taskOps' = [taskOps EXCEPT ![s].pc = "err"]
  /\ UNCHANGED <<page, mode, calls, currentUser, taskStore, taskNextId, tasks,
                 taskModalOpen, isLoading, newTask, editingTask, now>>
  /\ alert' = ""
  /\ lastConfirm' = "none"

\* Lines 47-53: the continuation after await getDocs (a failure is only
\* logged).  When handleAddTask awaited this fetch (line 88), it goes on to
\* line 89 and calls fetchTasks again, which sets isLoading.
TaskFetchDone(s) ==
  /\ page = "tasks" /\ UNCHANGED clientVars
  /\ taskOps[s].kind = "fetch" /\ taskOps[s].pc \in {"ok", "err"}
  /\ tasks' = IF taskOps[s].pc = "ok" THEN taskOps[s].docs ELSE tasks
  /\ IF taskOps[s].from = "save"
       THEN /\ isLoading' = TRUE
            /\ taskOps' = [taskOps EXCEPT
                             ![s] = TaskFetchOp(taskOps[s].uid, "save2", NullTask)]
       ELSE /\ isLoading' = FALSE
            /\ taskOps' = Remove(taskOps, s)
  /\ UNCHANGED <<page, mode, calls, currentUser, taskStore, taskNextId,
                 taskModalOpen, newTask, editingTask, now>>
  /\ alert' = ""
  /\ lastConfirm' = "none"

\* ------------------------------------------------------------- dialog
\* Line 187: the "Add New Task" button.
OpenTaskModal ==
  /\ page = "tasks" /\ UNCHANGED clientVars
  /\ ~DialogShown
  /\ taskModalOpen' = TRUE
  /\ UNCHANGED <<page, mode, calls, currentUser, taskStore, taskNextId, tasks,
                 isLoading, newTask, editingTask, taskOps, now>>
  /\ alert' = ""
  /\ lastConfirm' = "none"

\* Lines 204 and 279-282: onClose and Cancel.
CloseTaskDialog ==
  /\ page = "tasks" /\ UNCHANGED clientVars
  /\ DialogShown
  /\ taskModalOpen' = FALSE
  /\ editingTask' = NullTask
  /\ UNCHANGED <<page, mode, calls, currentUser, taskStore, taskNextId, tasks,
                 isLoading, newTask, taskOps, now>>
  /\ alert' = ""
  /\ lastConfirm' = "none"

\* Line 146: the edit button of a card.
ClickEditTask(i) ==
  /\ page = "tasks" /\ UNCHANGED clientVars
  /\ ColumnsShown
  /\ i \in 1..Len(tasks)
  /\ editingTask' = tasks[i]
  /\ UNCHANGED <<page, mode, calls, currentUser, taskStore, taskNextId, tasks,
                 taskModalOpen, isLoading, newTask, taskOps, now>>
  /\ alert' = ""
  /\ lastConfirm' = "none"

\* -------------------------------------------------------- handleAddTask
\* Lines 70-75: the object the add branch sends, built from the add buffer,
\* the signed-in user and the clock.
\* (Variant: only the four form fields are sent.)
AddTaskDataFormOnly(buf, uid, t) ==
  [NullTask EXCEPT !.title = buf.title, !.description = buf.description,
                   !.priority = buf.priority, !.dueDate = buf.dueDate]
AddTaskData(buf, uid, t) ==
  [NullTask EXCEPT !.title = buf.title, !.description = buf.description,
                   !.priority = buf.priority, !.dueDate = buf.dueDate,
                   !.userId = uid, !.createdAt = t, !.status = "todo"]

\* Lines 64-67: the object the edit branch sends: the whole edit buffer and
\* updatedAt.
EditTaskData(buf, t) == [buf EXCEPT !.updatedAt = t]

\* (Variant: the form also has a status control, left on "todo".)
TypedTaskStatus(buf, d) ==
  [buf EXCEPT !.title = d.title, !.description = d.description,
              !.priority = d.priority, !.dueDate = d.dueDate, !.status = "todo"]

\* Lines 215-219, 228-232, 249-253, 267-271: what typing d leaves in the
\* buffer the form is bound to.
TypedTask(buf, d) ==
  [buf EXCEPT !.title = d.title, !.description = d.description,
              !.priority = d.priority, !.dueDate = d.dueDate]

\* The user fills the form and submits it (line 209); lines 56-76 up to the
\* await of updateDoc or addDoc.
handleAddTask(d) ==
  /\ page = "tasks" /\ UNCHANGED clientVars
  /\ DialogShown
  /\ IF editingTask # NullTask
       THEN editingTask' = TypedTask(editingTask, d) /\ newTask' = newTask
       ELSE newTask' = TypedTask(newTask, d) /\ editingTask' = editingTask
  /\ IF currentUser = NoUser
       THEN UNCHANGED <<taskOps, calls, now>>
       ELSE /\ CanStart
            /\ calls' = calls + 1
            /\ now' = now + 1
            /\ taskOps' = Append(taskOps,
                 IF editingTask # NullTask
                   THEN [TaskFree EXCEPT !.kind = "edit", !.pc = "write",
                                         !.uid = currentUser,
                                         !.rec = EditTaskData(editingTask', now)]
                   ELSE [TaskFree EXCEPT !.kind = "add", !.pc = "write",
                                         !.uid = currentUser,
                                         !.rec = [AddTaskData(newTask', currentUser, now)
                                                    EXCEPT !.id = 0]])
  /\ UNCHANGED <<page, mode, currentUser, taskStore, taskNextId, tasks,
                 taskModalOpen, isLoading>>
  /\ alert' = ""
  /\ lastConfirm' = "none"

\* addDoc (line 76) is executed by the store.
TaskAddWrite(s) ==
  /\ page = "tasks" /\ UNCHANGED clientVars
  /\ taskOps[s].kind = "add" /\ taskOps[s].pc = "write"
  /\ taskStore' = taskStore @@ (taskNextId :> TaskDoc(taskOps[s].rec))
  /\ taskNextId' = taskNextId + 1
  /\ taskOps' = [taskOps EXCEPT ![s].pc = "written"]
  /\ UNCHANGED <<page, mode, calls, currentUser, tasks, taskModalOpen, isLoading,
                 newTask, editingTask, now>>
  /\ alert' = ""
  /\ lastConfirm' = "none"

\* updateDoc (line 64) is executed by the store: every field of the object
\* sent is set.  (The object's id field repeats the document's id.)
TaskEditWrite(s) ==
  /\ page = "tasks" /\ UNCHANGED clientVars
  /\ taskOps[s].kind = "edit" /\ taskOps[s].pc = "write"
  /\ taskOps[s].rec.id \in DOMAIN taskStore
  /\ taskStore' = [taskStore EXCEPT ![taskOps[s].rec.id] = TaskDoc(taskOps[s].rec)]
  /\ taskOps' = [taskOps EXCEPT ![s].pc = "written"]
  /\ UNCHANGED <<page, mode, calls, currentUser, taskNextId, tasks, taskModalOpen,
                 isLoading, newTask, editingTask, now>>
  /\ alert' = ""
  /\ lastConfirm' = "none"

\* A write (addDoc, updateDoc, deleteDoc) rejects; updateDoc always does when
\* the document no longer exists.
TaskWriteFail(s) ==
  /\ page = "tasks" /\ UNCHANGED clientVars
  /\ taskOps[s].kind \in {"add", "edit", "update", "delete"}
  /\ taskOps[s].pc = "write"
  /\ taskOps' = [taskOps EXCEPT ![s].pc = "failed"]
  /\ UNCHANGED <<page, mode, calls, currentUser, taskStore, taskNextId, tasks,
                 taskModalOpen, isLoading, newTask, editingTask, now>>
  /\ alert' = ""
  /\ lastConfirm' = "none"

\* Lines 79-88 after a write that succeeded (the dialog is closed, the
\* buffers are reset, fetchTasks is called and awaited); lines 90-92 after
\* one that failed (the error is only logged).
TaskSaveDone(s) ==
  /\ page = "tasks" /\ UNCHANGED clientVars
  /\ taskOps[s].kind \in {"add", "edit"}
  /\ taskOps[s].pc \in {"written", "failed"}
  /\ IF AwaitResolved(taskOps[s])
       THEN /\ taskModalOpen' = FALSE
            /\ editingTask' = NullTask
            /\ newTask' = EmptyTask
            /\ isLoading' = TRUE
            /\ taskOps' = [taskOps EXCEPT
                             ![s] = TaskFetchOp(taskOps[s].uid, "save", NullTask)]
       ELSE /\ UNCHANGED <<taskModalOpen, editingTask, newTask, isLoading>>
            /\ taskOps' = Remove(taskOps, s)
  /\ UNCHANGED <<page, mode, calls, currentUser, taskStore, taskNextId, tasks, now>>
  /\ alert' = ""
  /\ lastConfirm' = "none"

\* ----------------------------------------------------- handleUpdateTask
\* updateDoc(taskRef, updates) with updates = { status }: the fields of the
\* document after the store has applied it.
\* (Variant: the update also stamps updatedAt.)
UpdateTaskFieldsTouch(fields, updates) ==
  [fields EXCEPT !.status = updates.status, !.updatedAt = fields.createdAt + 1]
UpdateTaskFields(fields, updates) == [fields EXCEPT !.status = updates.status]

\* Lines 161-169: the status select of a card is set to another value; lines
\* 95-98 up to the await of updateDoc.
handleUpdateTask(i, status) ==
  /\ page = "tasks" /\ UNCHANGED clientVars
  /\ ColumnsShown
  /\ i \in 1..Len(tasks)
  /\ status \in TaskStatuses \ {tasks[i].status}
  /\ CanStart
  /\ calls' = calls + 1
  /\ taskOps' = Append(taskOps,
       [TaskFree EXCEPT !.kind = "update", !.pc = "write", !.uid = currentUser,
                        !.rec = [NullTask EXCEPT !.id = tasks[i].id,
                                                 !.status = status]])
  /\ UNCHANGED <<page, mode, currentUser, taskStore, taskNextId, tasks,
                 taskModalOpen, isLoading, newTask, editingTask, now>>
  /\ alert' = ""
  /\ lastConfirm' = "none"

\* updateDoc (line 98) is executed by the store.
TaskUpdateWrite(s) ==
  /\ page = "tasks" /\ UNCHANGED clientVars
  /\ taskOps[s].kind = "update" /\ taskOps[s].pc = "write"
  /\ taskOps[s].rec.id \in DOMAIN taskStore
  /\ taskStore' = [taskStore EXCEPT
                     ![taskOps[s].rec.id] = UpdateTaskFields(@, taskOps[s].rec)]
  /\ taskOps' = [taskOps EXCEPT ![s].pc = "written"]
  /\ UNCHANGED <<page, mode, calls, currentUser, taskNextId, tasks, taskModalOpen,
                 isLoading, newTask, editingTask, now>>
  /\ alert' = ""
  /\ lastConfirm' = "none"

\* Line 99 after a write that succeeded (fetchTasks is called and awaited);
\* lines 100-102 after one that failed.
TaskUpdateDone(s) ==
  /\ page = "tasks" /\ UNCHANGED clientVars
  /\ taskOps[s].kind = "update"
  /\ taskOps[s].pc \in {"written", "failed"}
  /\ IF AwaitResolved(taskOps[s])
       THEN /\ isLoading' = TRUE
            /\ taskOps' = [taskOps EXCEPT
                             ![s] = TaskFetchOp(taskOps[s].uid, "update", taskOps[s].rec)]
       ELSE /\ isLoading' = isLoading
            /\ taskOps' = Remove(taskOps, s)
  /\ UNCHANGED <<page, mode, calls, currentUser, taskStore, taskNextId, tasks,
                 taskModalOpen, newTask, editingTask, now>>
  /\ alert' = ""
  /\ lastConfirm' = "none"

\* ----------------------------------------------------- handleDeleteTask
\* Line 171: the delete button of a card; lines 105-108 up to the await of
\* deleteDoc.  answer is what window.confirm returns.
handleDeleteTask(i, answer) ==
  /\ page = "tasks" /\ UNCHANGED clientVars
  /\ ColumnsShown
  /\ i \in 1..Len(tasks)
  /\ lastConfirm' = answer
  /\ IF answer = "yes"
       THEN /\ CanStart
            /\ calls' = calls + 1
            /\ taskOps' = Append(taskOps,
                 [TaskFree EXCEPT !.kind = "delete", !.pc = "write",
                                  !.uid = currentUser,
                                  !.rec = [NullTask EXCEPT !.id = tasks[i].id]])
       ELSE UNCHANGED <<taskOps, calls>>
  /\ UNCHANGED <<page, mode, currentUser, taskStore, taskNextId, tasks,
                 taskModalOpen, isLoading, newTask, editingTask, now>>
  /\ alert' = ""

\* deleteDoc (line 108) is executed by the store; deleting a document that
\* does not exist succeeds.
TaskDeleteWrite(s) ==
  /\ page = "tasks" /\ UNCHANGED clientVars
  /\ taskOps[s].kind = "delete" /\ taskOps[s].pc = "write"
  /\ taskStore' = [i \in DOMAIN taskStore \ {taskOps[s].rec.id} |-> taskStore[i]]
  /\ taskOps' = [taskOps EXCEPT ![s].pc = "written"]
  /\ UNCHANGED <<page, mode, calls, currentUser, taskNextId, tasks, taskModalOpen,
                 isLoading, newTask, editingTask, now>>
  /\ alert' = ""
  /\ lastConfirm' = "none"

\* Line 109 after a write that succeeded; lines 110-112 after one that failed.
TaskDeleteDone(s) ==
  /\ page = "tasks" /\ UNCHANGED clientVars
  /\ taskOps[s].kind = "delete"
  /\ taskOps[s].pc \in {"written", "failed"}
  /\ IF AwaitResolved(taskOps[s])
       THEN /\ isLoading' = TRUE
            /\ taskOps' = [taskOps EXCEPT
                             ![s] = TaskFetchOp(taskOps[s].uid, "delete", taskOps[s].rec)]
       ELSE /\ isLoading' = isLoading
            /\ taskOps' = Remove(taskOps, s)
  /\ UNCHANGED <<page, mode, calls, currentUser, taskStore, taskNextId, tasks,
                 taskModalOpen, newTask, editingTask, now>>
  /\ alert' = ""
  /\ lastConfirm' = "none"

\* (Variant: the filter keeps the tasks of the other statuses.)
getTasksByStatusOther(status) ==
  SelectSeq(tasks, LAMBDA task : task.status # status)

\* Tasks.tsx lines 33-39: useAuth() hands the mounted component another
\* currentUser; the effect runs again and, with a user, calls fetchTasks
\* (lines 41-46 up to the await).
TaskAuthChange(u) ==
  /\ page = "tasks" /\ UNCHANGED clientVars
  /\ u \in (Users \cup {NoUser}) \ {currentUser}
  /\ CanStart /\ calls' = calls + 1
  /\ currentUser' = u
  /\ IF u # NoUser
       THEN /\ isLoading' = TRUE
            /\ taskOps' = Append(taskOps, TaskFetchOp(u, "mount", NullTask))
       ELSE UNCHANGED <<isLoading, taskOps>>
  /\ UNCHANGED <<page, mode, taskStore, taskNextId, tasks, taskModalOpen,
                 newTask, editingTask, now>>
  /\ alert' = ""
  /\ lastConfirm' = "none"

\* Lines 115-117.
getTasksByStatus(status) == SelectSeq(tasks, LAMBDA task : task.status = status)

\* -------------------------------------------------------------- Init
\* The collection as earlier page loads of the owners left it: up to two
\* documents, each as handleAddClient writes it (lines 106-110).
InitDocs == {AddClientData(d, u) : d \in EarlierDrafts, u \in Users}
\* Documents are taken in one order of creation: the user's before the other
\* user's, and within an owner by phone.
InitRank(d) == (IF d.userId = "u1" THEN 0 ELSE 2) + (IF d.phone = "1" THEN 0 ELSE 1)
InitStores == {<<>>} \cup {<<d>> : d \in InitDocs}
                    \cup {p \in {<<d, e>> : d \in InitDocs, e \in InitDocs} :
                            InitRank(p[1]) < InitRank(p[2])}

ClientInit ==
  /\ mode = "free"
  /\ store \in InitStores
  /\ nextId = Len(store) + 1
  /\ \E u \in {"u1", NoUser} : Mounted(u)

\* Free use from an empty collection.
RaceInit ==
  /\ mode = "race"
  /\ store = <<>>
  /\ nextId = 1
  /\ Mounted("u1")

\* Serial use from an empty collection.
SerialInit ==
  /\ mode = "serial"
  /\ store = <<>>
  /\ nextId = 1
  /\ Mounted("u1")

\* The task collection as earlier page loads left it: up to two documents,
\* each as handleAddTask wrote it and the status select may have moved it.
TaskInitDocs ==
  {TaskDoc([AddTaskData(d, ou[1], 0) EXCEPT !.status = ou[2]]) :
     d \in EarlierTaskDrafts,
     ou \in {<<"u1", "todo">>, <<"u1", "completed">>, <<"u2", "todo">>}}
\* Documents are taken in one order of creation: the user's before the other
\* user's, and within an owner the one still to do first.
TaskInitRank(d) == (IF d.userId = "u1" THEN 0 ELSE 2) + (IF d.status = "todo" THEN 0 ELSE 1)
TaskInitStores == {<<>>} \cup {<<d>> : d \in TaskInitDocs}
                        \cup {p \in {<<d, e>> : d \in TaskInitDocs, e \in TaskInitDocs} :
                                TaskInitRank(p[1]) < TaskInitRank(p[2])}

TaskInit ==
  /\ mode = "free"
  /\ taskStore \in TaskInitStores
  /\ taskNextId = Len(taskStore) + 1
  /\ \E u \in {"u1", NoUser} : TaskMounted(u)

vars == <<page, currentUser, store, nextId, clients, isModalOpen, newClient,
          editingClient, isAddLoading, isEditLoading, isDeleteLoading,
          isTableLoading, isViewModalOpen, selectedClient, alert, lastConfirm,
          ops, calls, mode,
          taskStore, taskNextId, tasks, taskModalOpen, isLoading, newTask,
          editingTask, taskOps, now>>

ClientNext ==
  \/ \E s \in Slots : FetchQuery(s)
  \/ \E s \in Slots : FetchFail(s)
  \/ \E s \in Slots : FetchDone(s)
  \/ OpenAddModal
  \/ CloseModal
  \/ \E i \in DOMAIN clients : ClickEdit(i)
  \/ \E i \in DOMAIN clients : handleViewClient(i)
  \/ CloseViewModal
  \/ \E d \in Drafts : handleAddClient(d)
  \/ \E s \in Slots : AddQuery(s)
  \/ \E s \in Slots : AddQueryFail(s)
  \/ \E s \in Slots : AddChecked(s)
  \/ \E s \in Slots : AddWrite(s)
  \/ \E s \in Slots : AddWriteFail(s)
  \/ \E s \in Slots : AddDone(s)
  \/ \E d \in Drafts \cup {[name |-> editingClient.name, email |-> editingClient.email,
                             phone |-> editingClient.phone]} : handleEditClient(d)
  \/ \E s \in Slots : EditQuery(s)
  \/ \E s \in Slots : EditQueryFail(s)
  \/ \E s \in Slots : EditChecked(s)
  \/ \E s \in Slots : EditWrite(s)
  \/ \E s \in Slots : EditWriteFail(s)
  \/ \E s \in Slots : EditDone(s)
  \/ \E i \in DOMAIN clients, answer \in {"yes", "no"} : handleDeleteClient(i, answer)
  \/ \E s \in Slots : DeleteWrite(s)
  \/ \E s \in Slots : DeleteWriteFail(s)
  \/ \E s \in Slots : DeleteDone(s)

Spec == ClientInit /\ [][ClientNext]_vars

\* The add form and the fetches only, with no fetch failing and the modal
\* never dismissed.
RaceNext ==
  \/ \E s \in Slots : FetchQuery(s)
  \/ \E s \in Slots : FetchDone(s)
  \/ OpenAddModal
  \/ \E d \in Drafts : handleAddClient(d)
  \/ \E s \in Slots : AddQuery(s)
  \/ \E s \in Slots : AddQueryFail(s)
  \/ \E s \in Slots : AddChecked(s)
  \/ \E s \in Slots : AddWrite(s)
  \/ \E s \in Slots : AddWriteFail(s)
  \/ \E s \in Slots : AddDone(s)

RaceSpec == RaceInit /\ [][RaceNext]_vars

SerialSpec == SerialInit /\ [][ClientNext]_vars

TaskNext ==
  \/ \E s \in TaskSlots : TaskFetchQuery(s)
  \/ \E s \in TaskSlots : TaskFetchFail(s)
  \/ \E s \in TaskSlots : TaskFetchDone(s)
  \/ OpenTaskModal
  \/ CloseTaskDialog
  \/ \E i \in DOMAIN tasks : ClickEditTask(i)
  \/ \E d \in TaskDrafts \cup {[title |-> editingTask.title,
                                 description |-> editingTask.description,
                                 priority |-> editingTask.priority,
                                 dueDate |-> editingTask.dueDate]} : handleAddTask(d)
  \/ \E s \in TaskSlots : TaskAddWrite(s)
  \/ \E s \in TaskSlots : TaskEditWrite(s)
  \/ \E s \in TaskSlots : TaskWriteFail(s)
  \/ \E s \in TaskSlots : TaskSaveDone(s)
  \/ \E i \in DOMAIN tasks, status \in TaskStatuses : handleUpdateTask(i, status)
  \/ \E s \in TaskSlots : TaskUpdateWrite(s)
  \/ \E s \in TaskSlots : TaskUpdateDone(s)
  \/ \E i \in DOMAIN tasks, answer \in {"yes", "no"} : handleDeleteTask(i, answer)
  \/ \E s \in TaskSlots : TaskDeleteWrite(s)
  \/ \E s \in TaskSlots : TaskDeleteDone(s)

TaskSpec == TaskInit /\ [][TaskNext]_vars

\* Either page is loaded, on a collection of at most one document.
AppInit ==
  \/ ClientInit /\ Len(store) <= 1
  \/ TaskInit /\ Len(taskStore) <= 1

AppSpec == AppInit /\ [][ClientNext \/ TaskNext]_vars

\* The collections as an earlier session left them: a client and a task of
\* the user, and a client and a task of another user.
ResyncStore ==
  <<AddClientData([name |-> "n", email |-> <<97>>, phone |-> "1"], "u1"),
    AddClientData([name |-> "n", email |-> <<98>>, phone |-> "2"], "u2")>>
ResyncTaskStore ==
  <<TaskDoc([AddTaskData(CHOOSE d \in EarlierTaskDrafts : TRUE, "u1", 0)
               EXCEPT !.status = "todo"]),
    TaskDoc([AddTaskData(CHOOSE d \in EarlierTaskDrafts : TRUE, "u2", 0)
               EXCEPT !.status = "todo"])>>

\* Either page is loaded by the signed-in user on those collections.
ResyncInit ==
  \/ /\ mode = "free"
     /\ store = ResyncStore
     /\ nextId = Len(store) + 1
     /\ Mounted("u1")
  \/ /\ mode = "free"
     /\ taskStore = ResyncTaskStore
     /\ taskNextId = Len(taskStore) + 1
     /\ TaskMounted("u1")

\* Either page in use while the store answers every call: no getDocs,
\* addDoc, updateDoc or deleteDoc is rejected.
ResyncNext ==
  \/ \E s \in Slots : FetchQuery(s)
  \/ \E s \in Slots : FetchDone(s)
  \/ OpenAddModal
  \/ CloseModal
  \/ \E i \in DOMAIN clients : ClickEdit(i)
  \/ \E i \in DOMAIN clients : handleViewClient(i)
  \/ CloseViewModal
  \/ \E d \in Drafts : handleAddClient(d)
  \/ \E s \in Slots : AddQuery(s)
  \/ \E s \in Slots : AddChecked(s)
  \/ \E s \in Slots : AddWrite(s)
  \/ \E s \in Slots : AddDone(s)
  \/ \E d \in Drafts \cup {[name |-> editingClient.name, email |-> editingClient.email,
                             phone |-> editingClient.phone]} : handleEditClient(d)
  \/ \E s \in Slots : EditQuery(s)
  \/ \E s \in Slots : EditChecked(s)
  \/ \E s \in Slots : EditWrite(s)
  \/ \E s \in Slots : EditDone(s)
  \/ \E i \in DOMAIN clients, answer \in {"yes", "no"} : handleDeleteClient(i, answer)
  \/ \E s \in Slots : DeleteWrite(s)
  \/ \E s \in Slots : DeleteDone(s)
  \/ \E s \in TaskSlots : TaskFetchQuery(s)
  \/ \E s \in TaskSlots : TaskFetchDone(s)
  \/ OpenTaskModal
  \/ CloseTaskDialog
  \/ \E i \in DOMAIN tasks : ClickEditTask(i)
  \/ \E d \in TaskDrafts \cup {[title |-> editingTask.title,
                                 description |-> editingTask.description,
                                 priority |-> editingTask.priority,
                                 dueDate |-> editingTask.dueDate]} : handleAddTask(d)
  \/ \E s \in TaskSlots : TaskAddWrite(s)
  \/ \E s \in TaskSlots : TaskEditWrite(s)
  \/ \E s \in TaskSlots : TaskSaveDone(s)
  \/ \E i \in DOMAIN tasks, status \in TaskStatuses : handleUpdateTask(i, status)
  \/ \E s \in TaskSlots : TaskUpdateWrite(s)
  \/ \E s \in TaskSlots : TaskUpdateDone(s)
  \/ \E i \in DOMAIN tasks, answer \in {"yes", "no"} : handleDeleteTask(i, answer)
  \/ \E s \in TaskSlots : TaskDeleteWrite(s)
  \/ \E s \in TaskSlots : TaskDeleteDone(s)

ResyncSpec == ResyncInit /\ [][ResyncNext]_vars

\* The task page is loaded by the signed-in user on a collection holding one
\* task of theirs.
StaleInit ==
  /\ mode = "stale"
  /\ taskStore = ResyncTaskStore
  /\ taskNextId = Len(taskStore) + 1
  /\ TaskMounted("u1")

\* The task page in use while the store answers every call: the cards' edit
\* button and status select, the dialog, and the fetches.
StaleNext ==
  \/ \E s \in TaskSlots : TaskFetchQuery(s)
  \/ \E s \in TaskSlots : TaskFetchDone(s)
  \/ CloseTaskDialog
  \/ \E i \in DOMAIN tasks : ClickEditTask(i)
  \/ \E d \in TaskDrafts \cup {[title |-> editingTask.title,
                                 description |-> editingTask.description,
                                 priority |-> editingTask.priority,
                                 dueDate |-> editingTask.dueDate]} : handleAddTask(d)
  \/ \E s \in TaskSlots : TaskEditWrite(s)
  \/ \E s \in TaskSlots : TaskSaveDone(s)
  \/ \E i \in DOMAIN tasks, status \in TaskStatuses : handleUpdateTask(i, status)
  \/ \E s \in TaskSlots : TaskUpdateWrite(s)
  \/ \E s \in TaskSlots : TaskUpdateDone(s)

StaleSpec == StaleInit /\ [][StaleNext]_vars

\* Either page in use on those collections while the signed-in user may
\* change or sign out.
AuthNext ==
  \/ ClientNext
  \/ TaskNext
  \/ \E u \in Users \cup {NoUser} : AuthChange(u)
  \/ \E u \in Users \cup {NoUser} : TaskAuthChange(u)

AuthSpec == ResyncInit /\ [][AuthNext]_vars

\* Either page in use on collections that also hold another user's
\* documents, store calls failing or not.
SharedSpec == ResyncInit /\ [][ClientNext \/ TaskNext]_vars

\* ================================================================ claims
\* In the step taken, the existence check of invocation s was answered.
CheckAnswered(s, kind) ==
  /\ ops[s].kind = kind /\ ops[s].pc = "check" /\ ops[s].checkSt = "pending"
  /\ Len(ops') = Len(ops)
  /\ ops'[s].checkSt = "ok"

\* In the step taken, invocation s, whose check was answered, ended or went on.
CheckLeft(s, kind) ==
  /\ ops[s].kind = kind /\ ops[s].pc = "check" /\ ops[s].checkSt = "ok"
  /\ \/ ops' = Remove(ops, s)
     \/ Len(ops') = Len(ops) /\ ops'[s] # ops[s]

\* In the step taken, the store executed the write of task invocation s.
TaskWriteExecuted(s, kind) ==
  /\ taskOps[s].kind = kind /\ taskOps[s].pc = "write"
  /\ Len(taskOps') = Len(taskOps)
  /\ taskOps'[s].pc = "written"

\* In the step taken, the store executed the write of invocation s.
WriteExecuted(s, kind) ==
  /\ ops[s].kind = kind /\ ops[s].pc = "write"
  /\ Len(ops') = Len(ops)
  /\ ops'[s].pc = "written"

\* Owner uid has a stored client, other than id, with this email up to case.
EmailTaken(uid, email, id) ==
  \E i \in DOMAIN store :
    /\ i # id
    /\ store[i].userId = uid
    /\ toLowerCase(store[i].email) = toLowerCase(email)

\* Owner uid has a stored client, other than id, with exactly this phone.
PhoneTaken(uid, phone, id) ==
  \E i \in DOMAIN store :
    i # id /\ store[i].userId = uid /\ store[i].phone = phone

\* C1: client Add.  When the existence check is answered, its email snapshot
\* is non-empty exactly if the owner has a stored client whose email equals
\* the draft's up to letter case; an Add whose email snapshot is non-empty
\* never reaches addDoc, and ends, with the store as it was, on the alert
\* "A client with this email already exists.".
C1_AddDuplicateEmailRejected ==
  /\ [][\A s \in DOMAIN ops :
          CheckAnswered(s, "add") =>
            (ops'[s].emailIds # {} <=> EmailTaken(ops[s].uid, ops[s].rec.email, 0))]_vars
  /\ [][\A s \in DOMAIN ops :
          (CheckLeft(s, "add") /\ ops[s].emailIds # {}) =>
            /\ ops' = Remove(ops, s)
            /\ alert' = "A client with this email already exists."
            /\ store' = store /\ nextId' = nextId]_vars
  /\ [](\A s \in DOMAIN ops :
          (ops[s].kind = "add" /\ ops[s].pc # "check") => ops[s].emailIds = {})

\* C1 witness: an Add of the email "A" was rejected as a duplicate of the
\* owner's stored "a".
C1_Witness ==
  /\ alert = "A client with this email already exists."
  /\ newClient.email = <<65>>
  /\ \E i \in DOMAIN store : store[i].userId = currentUser /\ store[i].email = <<97>>
  /\ ~PhoneTaken(currentUser, newClient.phone, 0)

\* C2: client Edit.  When the existence check is answered, its email snapshot
\* holds an identifier other than the edited one exactly if another client of
\* the owner has the buffer's email (up to letter case); such an Edit never
\* reaches updateDoc, and ends, with the store as it was, on the alert
\* "Another client with this email already exists.".
C2_EditDuplicateEmailRejected ==
  /\ [][\A s \in DOMAIN ops :
          CheckAnswered(s, "edit") =>
            ((ops'[s].emailIds \ {ops[s].rec.id} # {})
               <=> EmailTaken(ops[s].uid, ops[s].rec.email, ops[s].rec.id))]_vars
  /\ [][\A s \in DOMAIN ops :
          (CheckLeft(s, "edit") /\ ops[s].emailIds \ {ops[s].rec.id} # {}) =>
            /\ ops' = Remove(ops, s)
            /\ alert' = "Another client with this email already exists."
            /\ store' = store /\ nextId' = nextId]_vars
  /\ [](\A s \in DOMAIN ops :
          (ops[s].kind = "edit" /\ ops[s].pc # "check") =>
            ops[s].emailIds \ {ops[s].rec.id} = {})

\* C2 witness: an Edit was rejected because another stored client of the
\* owner has the email of the edit buffer.
C2_Witness ==
  /\ alert = "Another client with this email already exists."
  /\ editingClient # NullClient
  /\ EmailTaken(currentUser, editingClient.email, editingClient.id)

\* C3: client Edit.  When the existence check is answered, a snapshot holds
\* nothing but the edited identifier exactly if no other client of the owner
\* has that email (up to letter case), resp. that phone; an Edit whose two
\* snapshots hold nothing but the edited identifier goes on to updateDoc with
\* no alert; the store's updateDoc sets the document to the buffer with the
\* email in lower case; and the continuation after it closes the edit state.
C3_EditOwnValuesPass ==
  /\ [][\A s \in DOMAIN ops :
          CheckAnswered(s, "edit") =>
            /\ ops'[s].emailIds \subseteq {ops[s].rec.id}
                 <=> ~EmailTaken(ops[s].uid, ops[s].rec.email, ops[s].rec.id)
            /\ ops'[s].phoneIds \subseteq {ops[s].rec.id}
                 <=> ~PhoneTaken(ops[s].uid, ops[s].rec.phone, ops[s].rec.id)]_vars
  /\ [][\A s \in DOMAIN ops :
          (/\ CheckLeft(s, "edit")
           /\ ops[s].emailIds \subseteq {ops[s].rec.id}
           /\ ops[s].phoneIds \subseteq {ops[s].rec.id}) =>
            /\ Len(ops') = Len(ops) /\ ops'[s].pc = "write"
            /\ alert' = ""
            /\ isEditLoading']_vars
  /\ [][\A s \in DOMAIN ops :
          WriteExecuted(s, "edit") =>
            /\ DOMAIN store' = DOMAIN store
            /\ store'[ops[s].rec.id] =
                 [name |-> ops[s].rec.name, email |-> toLowerCase(ops[s].rec.email),
                  phone |-> ops[s].rec.phone, userId |-> ops[s].rec.userId]
            /\ \A i \in DOMAIN store \ {ops[s].rec.id} : store'[i] = store[i]]_vars
  /\ [][\A s \in DOMAIN ops :
          (/\ ops[s].kind = "edit" /\ ops[s].pc = "written"
           /\ Len(ops') = Len(ops) /\ ops'[s] # ops[s]) =>
            /\ editingClient' = NullClient
            /\ ~isEditLoading'
            /\ alert' = "Client updated successfully"]_vars

\* C3 witness: an Edit that typed "A" over the record's own stored "a" was
\* written.
C3_Witness ==
  \E s \in DOMAIN ops :
    /\ ops[s].kind = "edit" /\ ops[s].pc = "written"
    /\ ops[s].rec.email = <<65>>
    /\ ops[s].emailIds = {ops[s].rec.id}
    /\ ops[s].rec.id \in DOMAIN store
    /\ store[ops[s].rec.id].email = <<97>>
    /\ store[ops[s].rec.id].name = ops[s].rec.name

C5_AddLoadingOnlyAfterCheck ==
  isAddLoading =>
    \E s \in DOMAIN ops : ops[s].kind = "add" /\ ops[s].pc # "check"

\* C5 witness: two Adds of one page load have both been written, and the owner
\* has two stored clients with the same email.
C5_Witness ==
  /\ mode = "race"
  /\ \E i, j \in DOMAIN store :
       /\ i # j
       /\ store[i].userId = store[j].userId
       /\ store[i].email = store[j].email

\* C6: client Delete.  The store's deleteDoc removes the document with the
\* given identifier and leaves every other document, of this and of every
\* other owner, as it was; identifiers are never generated twice; the snapshot
\* of every fetch holds exactly the owner's documents stored at the moment the
\* store answers it; and the snapshot of the fetch the Delete issues
\* afterwards does not hold the deleted client.
C6_DeleteRemovesOnlyTarget ==
  /\ [][\A s \in DOMAIN ops :
          WriteExecuted(s, "delete") =>
            /\ DOMAIN store' = DOMAIN store \ {ops[s].rec.id}
            /\ \A i \in DOMAIN store' : store'[i] = store[i]]_vars
  /\ [](\A i \in DOMAIN store : i < nextId)
  /\ [][\A s \in DOMAIN ops :
          (/\ ops[s].kind = "fetch" /\ ops[s].pc = "query"
           /\ Len(ops') = Len(ops) /\ ops'[s].pc = "ok") =>
            /\ {ops'[s].docs[k].id : k \in DOMAIN ops'[s].docs}
                 = {i \in DOMAIN store : store[i].userId = ops[s].uid}
            /\ \A k \in DOMAIN ops'[s].docs :
                 \A f \in DOMAIN store[ops'[s].docs[k].id] :
                   ops'[s].docs[k][f] = store[ops'[s].docs[k].id][f]]_vars
  /\ [](\A s \in DOMAIN ops :
          (ops[s].kind = "fetch" /\ ops[s].from = "delete" /\ ops[s].pc = "ok") =>
            /\ \A k \in DOMAIN ops[s].docs : ops[s].docs[k].id # ops[s].rec.id
            /\ \A k \in DOMAIN ops[s].docs : ops[s].docs[k].userId = ops[s].uid)

\* C6 witness: the fetch after a Delete was answered, the deleted client is
\* gone and a client of another owner is still stored.
C6_Witness ==
  \E s \in DOMAIN ops :
    /\ ops[s].kind = "fetch" /\ ops[s].from = "delete" /\ ops[s].pc = "ok"
    /\ ops[s].rec.id \notin DOMAIN store
    /\ \E i \in DOMAIN store : store[i].userId # ops[s].uid

\* C7: both delete handlers are gated by the confirmation.  A step in which
\* the confirmation is declined changes neither store, list, buffer, flag nor
\* the set of invocations in flight of either page; a delete invocation is
\* started only by a step in which the confirmation is accepted; and a
\* document leaves a collection only when the store executes the deleteDoc of
\* such an invocation.
C7_DeleteConfirmationGated ==
  /\ [][lastConfirm' = "no" => UNCHANGED <<clientVars, taskVars>>]_vars
  /\ [][(\/ /\ Len(ops') = Len(ops) + 1
             /\ ops'[Len(ops')].kind = "delete"
          \/ /\ Len(taskOps') = Len(taskOps) + 1
             /\ taskOps'[Len(taskOps')].kind = "delete")
         => lastConfirm' = "yes"]_vars
  /\ [][(DOMAIN store' # DOMAIN store /\ DOMAIN store' \subseteq DOMAIN store)
         => \E s \in DOMAIN ops : WriteExecuted(s, "delete")]_vars
  /\ [][(DOMAIN taskStore' # DOMAIN taskStore
           /\ DOMAIN taskStore' \subseteq DOMAIN taskStore)
         => \E s \in DOMAIN taskOps : TaskWriteExecuted(s, "delete")]_vars

\* C7 witness: the delete of a listed task has just been declined.
C7_Witness ==
  /\ page = "tasks"
  /\ lastConfirm = "no"
  /\ Len(tasks) > 0
  /\ \A k \in DOMAIN tasks : tasks[k].id \in DOMAIN taskStore

C9_StatusChangeOnlyStatus ==
  [][\A s \in DOMAIN taskOps :
       TaskWriteExecuted(s, "update") =>
         /\ DOMAIN taskStore' = DOMAIN taskStore
         /\ \A i \in DOMAIN taskStore \ {taskOps[s].rec.id} :
              taskStore'[i] = taskStore[i]
         /\ taskStore'[taskOps[s].rec.id].status = taskOps[s].rec.status
         /\ taskOps[s].rec.status \in TaskStatuses
         /\ \A f \in {"title", "description", "priority", "dueDate", "userId",
                       "createdAt", "updatedAt"} :
              taskStore'[taskOps[s].rec.id][f] = taskStore[taskOps[s].rec.id][f]]_vars

\* C9 witness: the store has executed an inline status change of one of two
\* stored tasks.
C9_Witness ==
  \E s \in DOMAIN taskOps :
    /\ taskOps[s].kind = "update" /\ taskOps[s].pc = "written"
    /\ taskOps[s].rec.id \in DOMAIN taskStore
    /\ taskStore[taskOps[s].rec.id].status = taskOps[s].rec.status
    /\ taskStore[taskOps[s].rec.id].title = "t"
    /\ Cardinality(DOMAIN taskStore) = 2

\* C10: client Add.  When the existence check is answered, its phone snapshot
\* is non-empty exactly if the owner has a stored client with the draft's
\* phone; an Add whose phone snapshot is non-empty never reaches addDoc, and
\* ends, with the store as it was, on a duplicate alert: the phone one when
\* the email snapshot is empty.
C10_AddDuplicatePhoneRejected ==
  /\ [][\A s \in DOMAIN ops :
          CheckAnswered(s, "add") =>
            (ops'[s].phoneIds # {} <=> PhoneTaken(ops[s].uid, ops[s].rec.phone, 0))]_vars
  /\ [][\A s \in DOMAIN ops :
          (CheckLeft(s, "add") /\ ops[s].phoneIds # {}) =>
            /\ ops' = Remove(ops, s)
            /\ alert' = IF ops[s].emailIds # {}
                          THEN "A client with this email already exists."
                          ELSE "A client with this phone number already exists."
            /\ store' = store /\ nextId' = nextId]_vars
  /\ [](\A s \in DOMAIN ops :
          (ops[s].kind = "add" /\ ops[s].pc # "check") => ops[s].phoneIds = {})

\* C10 witness: an Add was rejected for its phone alone.
C10_Witness ==
  /\ alert = "A client with this phone number already exists."
  /\ PhoneTaken(currentUser, newClient.phone, 0)
  /\ ~EmailTaken(currentUser, newClient.email, 0)
\* In the step taken, the rejection of fetch s was handled (lines 56-61).
FetchFailureHandled(s) ==
  /\ ops[s].kind = "fetch" /\ ops[s].pc = "err"
  /\ ops' = Remove(ops, s)

\* C11 as stated: when a failed fetch is handled, the error notification is
\* shown, the local list equals the local list of the moment the fetch was
\* issued, and the table-loading flag is false.
C11_Original ==
  [][\A s \in DOMAIN ops :
       FetchFailureHandled(s) =>
         /\ alert' = "Failed to fetch clients"
         /\ clients' = ops[s].prior
         /\ ~isTableLoading']_vars

\* C11 as amended: when a failed fetch is handled, the error notification is
\* shown, the local list is the one of the moment before the failure was
\* handled (the failure changes nothing in it, whatever other fetches have
\* delivered since this one was issued), the table-loading flag is false and
\* the store is not touched.
C11_FetchFailureRetainsList ==
  [][\A s \in DOMAIN ops :
       FetchFailureHandled(s) =>
         /\ alert' = "Failed to fetch clients"
         /\ clients' = clients
         /\ ~isTableLoading'
         /\ store' = store]_vars

\* C11 witness: a fetch has just failed with a non-empty list on display, and
\* the list is still there.
C11_Witness ==
  /\ alert = "Failed to fetch clients"
  /\ Len(clients) > 0
  /\ ~isTableLoading

\* In the step taken, the continuation of client invocation s ran after its
\* write was rejected.
WriteFailureHandled(s) ==
  /\ ops[s].kind \in {"add", "edit", "delete"} /\ ops[s].pc = "failed"
  /\ \/ Len(ops') < Len(ops) /\ ops' = Remove(ops, s)
     \/ Len(ops') = Len(ops) /\ ops'[s] # ops[s]

\* In the step taken, the continuation of task submit s ran after its write
\* was rejected.
TaskSaveFailureHandled(s) ==
  /\ taskOps[s].kind \in {"add", "edit"} /\ taskOps[s].pc = "failed"
  /\ \/ Len(taskOps') < Len(taskOps) /\ taskOps' = Remove(taskOps, s)
     \/ Len(taskOps') = Len(taskOps) /\ taskOps'[s] # taskOps[s]

\* C12: when the continuation of a client Add, Edit or Delete, or of a task
\* submit, runs after its write was rejected, the local list, the modal flag,
\* the add buffer and the edit buffer are left as they were (an open modal
\* stays open, a set edit target stays set), the store is not touched, and no
\* fetch is issued: the invocation ends and the loading flag of the list is
\* not set.
C12_WriteFailureRetryable ==
  /\ [][\A s \in DOMAIN ops :
          WriteFailureHandled(s) =>
            /\ ops' = Remove(ops, s)
            /\ UNCHANGED <<clients, isModalOpen, newClient, editingClient,
                           isTableLoading, store, nextId>>
            /\ (ModalShown => ModalShown')]_vars
  /\ [][\A s \in DOMAIN taskOps :
          TaskSaveFailureHandled(s) =>
            /\ taskOps' = Remove(taskOps, s)
            /\ UNCHANGED <<tasks, taskModalOpen, newTask, editingTask,
                           isLoading, taskStore, taskNextId>>
            /\ (DialogShown => DialogShown')]_vars

\* C12 witness: the addDoc of a client Add has just been rejected and the add
\* modal is open with the draft in its buffer.
C12_Witness ==
  /\ alert = "Failed to add client. Please try again later."
  /\ isModalOpen
  /\ newClient # EmptyDraft
  /\ ~isAddLoading

\* In the step taken, the continuation of client invocation s ran after a
\* store call of it (fetch, existence check, write) was rejected.
ClientFailureHandled(s) ==
  /\ \/ ops[s].pc \in {"err", "failed"}
     \/ ops[s].pc = "check" /\ ops[s].checkSt = "err"
  /\ \/ Len(ops') < Len(ops) /\ ops' = Remove(ops, s)
     \/ Len(ops') = Len(ops) /\ ops'[s] # ops[s]

\* In the step taken, the continuation of task invocation s ran after a store
\* call of it (fetch, write) was rejected.
TaskFailureHandled(s) ==
  /\ taskOps[s].pc \in {"err", "failed"}
  /\ \/ Len(taskOps') < Len(taskOps) /\ taskOps' = Remove(taskOps, s)
     \/ Len(taskOps') = Len(taskOps) /\ taskOps'[s] # taskOps[s]

\* C13 as stated: on either page, the step that handles a rejected store call
\* (fetch, create, update, delete) shows a notification to the user.
C13_EveryFailureNotified ==
  /\ [][\A s \in DOMAIN ops : ClientFailureHandled(s) => alert' # ""]_vars
  /\ [][\A s \in DOMAIN taskOps : TaskFailureHandled(s) => alert' # ""]_vars

\* The positions of the in-memory task list whose task is shown in the column
\* of a status, in list order.
ColumnPositions(status) == {i \in DOMAIN tasks : tasks[i].status = status}

\* C14: the three columns partition the in-memory task list: every task is in
\* the column of its status and in no other, the columns together hold as
\* many cards as the list has tasks, and each column lists its tasks in the
\* order they have in the list.
C14_ColumnsPartition ==
  /\ \A i \in DOMAIN tasks : \A st \in TaskStatuses :
       (\E j \in DOMAIN getTasksByStatus(st) :
           getTasksByStatus(st)[j] = tasks[i]) <=> tasks[i].status = st
  /\ Len(getTasksByStatus("todo")) + Len(getTasksByStatus("in-progress"))
       + Len(getTasksByStatus("completed")) = Len(tasks)
  /\ \A st \in TaskStatuses :
       /\ Len(getTasksByStatus(st)) = Cardinality(ColumnPositions(st))
       /\ \A j \in DOMAIN getTasksByStatus(st) :
            \E i \in ColumnPositions(st) :
              /\ tasks[i] = getTasksByStatus(st)[j]
              /\ Cardinality({k \in ColumnPositions(st) : k < i}) = j - 1

\* A list of three tasks is shown, two of them in one column and the third in
\* another.
C14_Witness ==
  /\ ColumnsShown
  /\ Len(tasks) = 3
  /\ \E st \in TaskStatuses : \E other \in TaskStatuses \ {st} :
       /\ Len(getTasksByStatus(st)) = 2
       /\ Len(getTasksByStatus(other)) = 1

\* C15: the table renders one row per record of the list it is given, in the
\* list's order (no row for the empty list); the edit and view buttons of a
\* row hand that row's record to onEdit and onView, the delete button hands
\* that row's identifier to onDelete; and a click changes nothing beyond what
\* the callback does (a delete the user declines leaves every field as it
\* was).
C15_TableRowsAndTriggers ==
  /\ [](/\ Len(ClientTable(clients)) = Len(clients)
        /\ \A i \in DOMAIN clients :
             /\ ClientTable(clients)[i].key = clients[i].id
             /\ ClientTable(clients)[i].cells
                  = <<clients[i].name, clients[i].email, clients[i].phone>>
        /\ \A i, j \in DOMAIN clients :
             ClientTable(clients)[i].key = ClientTable(clients)[j].key => i = j
        /\ ClientTable(<<>>) = <<>>)
  /\ [][\A i \in DOMAIN clients :
          /\ ClickEdit(i) => editingClient' = clients[i]
          /\ handleViewClient(i) => selectedClient' = clients[i]
          /\ handleDeleteClient(i, "yes") =>
               /\ Len(ops') = Len(ops) + 1
               /\ ops'[Len(ops')].kind = "delete"
               /\ ops'[Len(ops')].rec.id = clients[i].id
          /\ handleDeleteClient(i, "no") =>
               UNCHANGED <<clientVars, taskVars, calls, currentUser>>]_vars

\* The edit button of the second row of a list of two or more was clicked.
C15_Witness ==
  /\ Len(clients) >= 2
  /\ editingClient = clients[2]
  /\ ~isModalOpen

\* C18: the step in which a record becomes the selected one (View) opens the
\* detail panel on a record of the list and does nothing else: it issues no
\* store call, and leaves the store, the list, the add/edit modal state and
\* the loading flags as they were.
C18_ViewIsLocal ==
  [][(selectedClient' # selectedClient /\ selectedClient' # NullClient) =>
       /\ \E i \in DOMAIN clients : selectedClient' = clients[i]
       /\ isViewModalOpen'
       /\ UNCHANGED <<store, nextId, clients, isModalOpen, newClient,
                      editingClient, isAddLoading, isEditLoading,
                      isDeleteLoading, isTableLoading, ops, calls>>
       /\ alert' = ""]_vars

\* The detail panel is open on a record while a store call of an earlier
\* handler is still in flight.
C18_Witness ==
  /\ ViewShown
  /\ \E i \in DOMAIN clients : selectedClient = clients[i]
  /\ ops # <<>>

\* C16 as stated: once a mutation of the page has changed the collection and
\* no store call is in flight any more (none was rejected), the local list
\* is the store's collection of the user, in whatever order the responses of
\* overlapping fetches were delivered.
C16_ResyncedWhenQuiet ==
  /\ (page = "clients" /\ ops = <<>> /\ store # ResyncStore)
       => clients = QueryByUser(currentUser)
  /\ (page = "tasks" /\ taskOps = <<>> /\ taskStore # ResyncTaskStore)
       => tasks = QueryTasksByUser(currentUser)

\* C17: the add-modal flag and the edit target are never both set, whatever
\* the user does where the page lets them and whenever store responses
\* arrive.
C17_AddEditExclusive == ~(isModalOpen /\ editingClient # NullClient)

\* The response of an Add submitted earlier arrives while the form is open in
\* Edit mode.
C17_Witness ==
  /\ alert = "Client added successfully"
  /\ editingClient # NullClient
  /\ ~isModalOpen

\* What a step of a user's page may do to a collection: documents of other
\* owners stay as they are, no document changes owner, and a new document
\* belongs to the user.
OwnersKept(before, after, uid) ==
  /\ \A id \in DOMAIN before :
       before[id].userId # uid => id \in DOMAIN after /\ after[id] = before[id]
  /\ \A id \in DOMAIN before \cap DOMAIN after :
       after[id].userId = before[id].userId
  /\ \A id \in DOMAIN after \ DOMAIN before : after[id].userId = uid

C20_StoredEmailsLowercase ==
  \A id \in DOMAIN store : store[id].email = toLowerCase(store[id].email)

\* A form whose email was typed with an upper-case letter has been written
\* to the collection.
C20_Witness ==
  /\ store # <<>>
  /\ \E s \in DOMAIN ops :
       /\ ops[s].kind \in {"add", "edit"} /\ ops[s].pc = "written"
       /\ ops[s].rec.email # toLowerCase(ops[s].rec.email)

\* In the step taken the form was submitted in Edit mode: invocation
\* Len(taskOps') is the new one.
EditSubmitted ==
  /\ editingTask # NullTask
  /\ Len(taskOps') = Len(taskOps) + 1
  /\ taskOps'[Len(taskOps')].kind = "edit"

\* C21 as stated: when the store holds the status an inline change of a task
\* has set (the handler of the change has not even re-fetched yet) and the
\* write of an edit of the same task, submitted meanwhile, is executed, the
\* stored status stays the one the inline change set.
C21_EditKeepsInlineStatus ==
  [][\A s \in DOMAIN taskOps : \A u \in DOMAIN taskOps :
       (/\ TaskWriteExecuted(s, "edit")
        /\ taskOps[u].kind = "update" /\ taskOps[u].pc = "written"
        /\ taskOps[u].rec.id = taskOps[s].rec.id
        /\ taskStore[taskOps[s].rec.id].status = taskOps[u].rec.status)
       => taskStore'[taskOps[s].rec.id].status = taskOps[u].rec.status]_vars

\* C21, amended: the edit path writes the whole buffered record, status
\* included.  The buffer is the record the list held when the form was
\* opened, the form never alters its status, the edit write stores that
\* status and an inline write stores its own: the stored status after both
\* writes is that of the write executed last.
C21_EditWritesBufferedStatus ==
  /\ [][(editingTask = NullTask /\ editingTask' # NullTask) =>
          \E i \in DOMAIN tasks : editingTask' = tasks[i]]_vars
  /\ [][EditSubmitted =>
          taskOps'[Len(taskOps')].rec.status = editingTask.status]_vars
  /\ [][\A s \in DOMAIN taskOps :
          /\ TaskWriteExecuted(s, "edit") =>
               taskStore'[taskOps[s].rec.id].status = taskOps[s].rec.status
          /\ TaskWriteExecuted(s, "update") =>
               taskStore'[taskOps[s].rec.id].status = taskOps[s].rec.status]_vars

\* The inline change of a task to "completed" was stored, and the write of an
\* edit of the same task, opened on the list of before, has put "todo" back.
C21_Witness ==
  /\ \E u \in DOMAIN taskOps :
       /\ taskOps[u].kind = "update" /\ taskOps[u].pc = "written"
       /\ taskOps[u].rec.id = 1 /\ taskOps[u].rec.status = "completed"
  /\ \E s \in DOMAIN taskOps :
       /\ taskOps[s].kind = "edit" /\ taskOps[s].pc = "written"
       /\ taskOps[s].rec.id = 1
  /\ taskStore[1].status = "todo"

\* C22 as stated: the table-loading flag is true in every state in which a
\* fetchClients call is waiting for the store's answer, so the table is
\* never rendered as loaded while a fetch is outstanding.
C22_TableLoadingWhileFetching ==
  (\E s \in DOMAIN ops : ops[s].kind = "fetch" /\ ops[s].pc = "query")
    => isTableLoading

\* C25 as stated: in every state every entry of the local client list and of
\* the local task list is owned by the user who is current in that state.
C25_ListsHoldCurrentUsersDocs ==
  /\ \A k \in DOMAIN clients : clients[k].userId = currentUser
  /\ \A k \in DOMAIN tasks : tasks[k].userId = currentUser

\* In the step taken, invocation s, whose existence check was rejected by the
\* store, went on or ended.
FailedCheckLeft(s) ==
  /\ ops[s].kind \in {"add", "edit"}
  /\ ops[s].pc = "check" /\ ops[s].checkSt = "err"
  /\ \/ Len(ops') < Len(ops) /\ ops' = Remove(ops, s)
     \/ Len(ops') = Len(ops) /\ ops'[s] # ops[s]

\* C23: the duplicate check fails closed.  When an existence query of Add or
\* Edit is rejected, the handler ends with an error notification, sends no
\* addDoc or updateDoc, and leaves the modal and its buffer as they were; so
\* does a submit with no user signed in (the buffer holding what was typed).
C23_CheckFailsClosed ==
  /\ [][\A s \in DOMAIN ops : FailedCheckLeft(s) =>
          /\ ops' = Remove(ops, s)
          /\ alert' = "Error checking for duplicate clients."
          /\ UNCHANGED <<store, nextId, clients, isModalOpen, newClient,
                         editingClient, isAddLoading, isEditLoading>>]_vars
  /\ [][\A d \in Drafts :
          /\ (currentUser = NoUser /\ handleAddClient(d)) =>
               /\ alert' = "You must be logged in to add a client."
               /\ newClient' = d
               /\ UNCHANGED <<store, nextId, ops, isModalOpen, editingClient,
                              isAddLoading, isEditLoading>>
          /\ (currentUser = NoUser /\ handleEditClient(d)) =>
               /\ alert' = "Error checking for duplicate clients."
               /\ editingClient' = [editingClient EXCEPT !.name = d.name,
                                      !.email = d.email, !.phone = d.phone]
               /\ UNCHANGED <<store, nextId, ops, isModalOpen, newClient,
                              isAddLoading, isEditLoading>>]_vars

\* The edit form was submitted after the user had signed out.
C23_Witness ==
  /\ currentUser = NoUser
  /\ editingClient # NullClient
  /\ alert = "Error checking for duplicate clients."

\* C24, its closing statement: when no request of the page remains in
\* flight, all loading flags are idle (table, add, edit and delete loading
\* on the clients page, loading on the task page).
C24_FlagsIdleWhenQuiet ==
  /\ (page = "clients" /\ ops = <<>>) =>
       /\ ~isTableLoading /\ ~isAddLoading /\ ~isEditLoading
       /\ isDeleteLoading = 0
  /\ (page = "tasks" /\ taskOps = <<>>) => ~isLoading

====
